---- MODULE Spec2Model ----
(***************************************************************************)
(* Model of the constrained weight-fitting engine of                       *)
(* finding_fifa_players_rating: optimization.find_optimized_weights and    *)
(* the loop of main.main that calls it.                                    *)
(*                                                                         *)
(* Numbers.  Python floats are modelled as exact rationals <<n, d>> in     *)
(* lowest terms with d > 0; float("inf") is <<1, 0>>.  Rounding is not     *)
(* modelled.  Statistic values are the integers 0..MaxStat.               *)
(*                                                                         *)
(* Solver.  scipy.optimize.minimize is not part of the repository.  It is  *)
(* modelled by its contract: a call either raises, or returns an           *)
(* OptimizeResult with success = False, or returns success = True with a   *)
(* vector x and fun = objective(x).  A successful x honours the bounds and *)
(* the sum constraint only up to the solver's tolerance, which is one grid *)
(* unit 1/Grid here: every component is >= -1/Grid and the sum lies within *)
(* 1/Grid of 1.                                                            *)
(***************************************************************************)
EXTENDS Integers, Sequences, FiniteSets, TLC

\* ---------------------------------------------------------------- bounds
MaxPlayers == 2
MaxStat == 1
MaxFeatures == 2
Grid == 2
MaxCalls == 3

\* ------------------------------------------------------- program constants
PositionLabels == {"GK", "CB"}
StatisticNames == {"pac", "sho"}
TargetNames == StatisticNames \cup {"overallRating"}
OptimizationNames == {"Overall Rating"}
methods == <<"SLSQP", "trust-constr">>

\* ------------------------------------------------------------------ state
VARIABLES
    pc,                     \* where the invocation is
    optimization_name,      \* arguments of find_optimized_weights
    position_short_label,
    varying_stats_names,
    target_stat_name,
    players_for_position,   \* locals of find_optimized_weights
    n_features,
    X_valid,
    y_actual_valid,
    method_index,           \* position of "for method in methods"
    best_result,            \* <<>> is None, else <<[method, x, fun]>>
    best_error,
    attempted,              \* what each method tried so far did
    return_path,            \* which return statement produced the result
    result,                 \* <<>> or <<the returned Optimization>>
    raised,                 \* the exception that left the function
    players,                \* main: the loaded player list
    optimizations,          \* main: the results collected so far
    solver_memo             \* the solver as a function of its arguments

args == <<optimization_name, position_short_label, varying_stats_names,
          target_stat_name>>
locals == <<players_for_position, n_features, X_valid, y_actual_valid,
            method_index, best_result, best_error, attempted>>
outcome == <<return_path, result, raised>>
caller == <<players, optimizations, solver_memo>>
vars == <<pc, args, locals, outcome, caller>>

\* ------------------------------------------------------ rational numbers
Abs(i) == IF i < 0 THEN -i ELSE i

RECURSIVE GCD(_, _)
GCD(a, b) == IF b = 0 THEN a ELSE GCD(b, a % b)

Rat(n, d) ==
    LET g == GCD(Abs(n), Abs(d))
        s == IF d < 0 THEN -1 ELSE 1
    IN  <<(s * n) \div g, (s * d) \div g>>

Int2Rat(i) == <<i, 1>>
Zero == <<0, 1>>
One == <<1, 1>>
Inf == <<1, 0>>

RAdd(a, b) == Rat(a[1] * b[2] + b[1] * a[2], a[2] * b[2])
RSub(a, b) == Rat(a[1] * b[2] - b[1] * a[2], a[2] * b[2])
RMul(a, b) == Rat(a[1] * b[1], a[2] * b[2])
RDiv(a, b) == Rat(a[1] * b[2], a[2] * b[1])
RAbs(a) == <<Abs(a[1]), a[2]>>
RLess(a, b) == a[1] * b[2] < b[1] * a[2]

RECURSIVE RSumTo(_, _)
RSumTo(s, k) == IF k = 0 THEN Zero ELSE RAdd(RSumTo(s, k - 1), s[k])

RSum(s) == RSumTo(s, Len(s))


\* ------------------------------------------------------------ input data
\* A player carries the three fields the engine reads.
Players ==
    [position : PositionLabels,
     overallRating : 0..MaxStat,
     stats : [StatisticNames -> 0..MaxStat]]

SeqsUpTo(S, n) == UNION {[1..k -> S] : k \in 0..n}

PlayerLists == SeqsUpTo(Players, MaxPlayers)
FeatureLists == SeqsUpTo(StatisticNames, MaxFeatures)

Range(s) == {s[i] : i \in 1..Len(s)}

\* --------------------------------------------- find_optimized_weights, pure
\* players_for_position = [p for p in players if p.position.shortLabel == ...]
FilterPlayers(plist, position) ==
    LET Match(p) == p.position = position
    IN  SelectSeq(plist, Match)

\* Mutant: the check of the feature count is dropped.
StructuralErrorCohortOnly(cohort, n) ==
    IF cohort = <<>> THEN "ValueError" ELSE "none"

\* The guard of "raise ValueError(...)": one error for both conditions.
StructuralError(cohort, n) ==
    IF cohort = <<>> \/ n = 0 THEN "ValueError" ELSE "none"

_get_target_values(players_subset, target) ==
    [i \in 1..Len(players_subset) |->
        IF target = "overallRating"
        THEN players_subset[i].overallRating
        ELSE players_subset[i].stats[target]]

\* Mutant: the columns follow the alphabetical order of the statistics, not
\* the order of varying_stats_names.
FeatureMatrixByStatOrder(players_subset, names) ==
    LET sorted == IF Len(names) = 2 /\ names[1] = "sho" /\ names[2] = "pac"
                  THEN <<"pac", "sho">> ELSE names
    IN  [i \in 1..Len(players_subset) |->
            [j \in 1..Len(names) |-> players_subset[i].stats[sorted[j]]]]

_get_feature_matrix(players_subset, names) ==
    [i \in 1..Len(players_subset) |->
        [j \in 1..Len(names) |-> players_subset[i].stats[names[j]]]]

\* valid_indices = y_actual != 0 ; the positions kept, in order
RECURSIVE ValidIndicesTo(_, _)
ValidIndicesTo(y, k) ==
    IF k = 0 THEN <<>>
    ELSE IF y[k] # 0 THEN Append(ValidIndicesTo(y, k - 1), k)
         ELSE ValidIndicesTo(y, k - 1)

ValidIndices(y) == ValidIndicesTo(y, Len(y))

\* a[valid_indices]
Take(a, idx) == [i \in 1..Len(idx) |-> a[idx[i]]]

\* X_valid @ weights, one row
Dot(row, weights) ==
    RSum([j \in 1..Len(row) |-> RMul(Int2Rat(row[j]), weights[j])])

\* objective(weights) = mean(|(X_valid @ w - y) / y|)
objective(X, y, weights) ==
    LET relative_errors ==
            [i \in 1..Len(y) |->
                RAbs(RDiv(RSub(Dot(X[i], weights), Int2Rat(y[i])),
                          Int2Rat(y[i])))]
    IN  RDiv(RSum(relative_errors), Int2Rat(Len(y)))

\* initial_weights = np.ones(n_features) / n_features
InitialWeights(n) == [j \in 1..n |-> Rat(1, n)]

\* Mutant: "<=" in place of "<", the method tried last wins a tie.
AcceptsOnTie(success, fun, error) == success /\ ~RLess(error, fun)

\* The comparison that makes a method's result the best one so far.
Accepts(success, fun, error) == success /\ RLess(fun, error)

\* Mutant: the division by the sum is skipped.
NormalizationSkipped(x) == x

\* optimized_weights_array / np.sum(optimized_weights_array)
NormalizedWeights(x) == [j \in 1..Len(x) |-> RDiv(x[j], RSum(x))]

\* Mutant: best_error lives outside the function and keeps the error of the
\* previous invocation.
StaleStartError ==
    IF optimizations = <<>> THEN <<1, 0>>
    ELSE optimizations[Len(optimizations)].mean_error

\* best_result = None ; best_error = float("inf")
StartError == Inf

\* Mutant: the mean error is recomputed at the normalized weights.
MeanErrorAfterNormalization(best) ==
    objective(X_valid, y_actual_valid,
              [j \in 1..Len(best.x) |-> RDiv(best.x[j], RSum(best.x))])

\* mean_error = best_result.fun
ConvergedMeanError(best) == best.fun

\* {name: weight for name, weight in zip(names, array)}: a later pair with
\* the same name replaces the earlier one.
ZipDict(names, array) ==
    [k \in Range(names) |->
        LET last == CHOOSE i \in 1..Len(names) :
                        /\ names[i] = k
                        /\ \A h \in (i + 1)..Len(names) : names[h] # k
        IN  array[last]]

\* Mutant: the division by the feature count is forgotten.
UniformDictOfOnes(names) == [k \in Range(names) |-> One]

\* {name: uniform for name in varying_stats_names}
UniformDict(names) == [k \in Range(names) |-> Rat(1, Len(names))]

\* Mutant: the fallback reports 0.0 like the degenerate return.
FallbackMeanErrorZero(X, y, n) == Zero

\* mean_error of the fallback branch: objective(initial_weights)
FallbackMeanError(X, y, n) == objective(X, y, InitialWeights(n))

\* ------------------------------------------------ scipy.optimize.minimize
\* Vectors a method may report with success = True, in units of 1/Grid.
SolverVectors(n) ==
    {v \in [1..n -> (-1)..(Grid + 1)] :
        LET total == RSum([j \in 1..n |-> Int2Rat(v[j])])[1]
        IN  total \in (Grid - 1)..(Grid + 1)}

GridWeights(v) == [j \in 1..Len(v) |-> Rat(v[j], Grid)]

\* What one call of minimize can do.
SolverOutcomes(n) ==
    {[kind |-> "raised", x |-> <<>>], [kind |-> "failed", x |-> <<>>]}
    \cup {[kind |-> "converged", x |-> GridWeights(v)] : v \in SolverVectors(n)}


\* ---------------------------------------------------------- initial state
\* No invocation is active: nothing of an earlier frame exists.
NoFrame ==
    /\ optimization_name = ""
    /\ position_short_label = ""
    /\ varying_stats_names = <<>>
    /\ target_stat_name = ""
    /\ players_for_position = <<>>
    /\ n_features = 0
    /\ X_valid = <<>>
    /\ y_actual_valid = <<>>
    /\ method_index = 0
    /\ best_result = <<>>
    /\ best_error = Inf
    /\ attempted = <<>>
    /\ return_path = "none"
    /\ result = <<>>
    /\ raised = "none"

Init ==
    /\ pc = "idle"
    /\ NoFrame
    /\ players = <<>>
    /\ optimizations = <<>>
    /\ solver_memo = <<>>

\* ------------------------------------------------------------- operations
\* Entry of find_optimized_weights up to the input check: filter the
\* players of the position, count the features, raise on insufficient data.
Enter(plist, name, position, names, target) ==
    LET cohort == FilterPlayers(plist, position)
        n == Len(names)
        err == StructuralError(cohort, n)
    IN  /\ optimization_name' = name
        /\ position_short_label' = position
        /\ varying_stats_names' = names
        /\ target_stat_name' = target
        /\ players_for_position' = cohort
        /\ n_features' = n
        /\ raised' = err
        /\ pc' = IF err = "none" THEN "checked" ELSE "raised"
        /\ UNCHANGED <<X_valid, y_actual_valid, method_index, best_result,
                       best_error, attempted, return_path, result>>

\* The Optimization dictionary both return statements build.
Optimization(weights, mean_error) ==
    [name |-> optimization_name,
     position_short_label |-> position_short_label,
     varying_stats_names |-> varying_stats_names,
     target_stat_name |-> target_stat_name,
     optimized_weights |-> weights,
     mean_error |-> mean_error]

\* "Prepare data" up to the start of the method loop: build y and X, drop
\* the rows with a zero target, return the uniform result when none is left,
\* otherwise set up best_result = None and best_error = inf.
Prepare ==
    LET y_actual == _get_target_values(players_for_position, target_stat_name)
        X == _get_feature_matrix(players_for_position, varying_stats_names)
        valid_indices == ValidIndices(y_actual)
        y_valid == Take(y_actual, valid_indices)
    IN  /\ pc = "checked"
        /\ y_actual_valid' = y_valid
        /\ X_valid' = Take(X, valid_indices)
        /\ IF Len(y_valid) = 0
           THEN /\ result' = <<Optimization(UniformDict(varying_stats_names),
                                            Zero)>>
                /\ return_path' = "degenerate"
                /\ pc' = "returned"
                /\ UNCHANGED <<method_index, best_result, best_error>>
           ELSE /\ method_index' = 1
                /\ best_result' = <<>>
                /\ best_error' = StartError
                /\ pc' = "solving"
                /\ UNCHANGED <<result, return_path>>
        /\ UNCHANGED <<args, players_for_position, n_features, attempted,
                       raised, caller>>

\* One iteration of "for method in methods" given what minimize did and the
\* value fun it reported: an exception is caught and the loop continues.
LoopIteration(o, fun) ==
    LET method == methods[method_index]
    IN  /\ IF o.kind # "raised" /\ Accepts(o.kind = "converged", fun, best_error)
           THEN /\ best_result' = <<[method |-> method, x |-> o.x, fun |-> fun]>>
                /\ best_error' = fun
           ELSE UNCHANGED <<best_result, best_error>>
        /\ attempted' = Append(attempted,
                [method |-> method, kind |-> o.kind,
                 fun |-> IF o.kind = "converged" THEN <<fun>> ELSE <<>>])
        /\ method_index' = method_index + 1
        /\ UNCHANGED <<pc, args, players_for_position, n_features, X_valid,
                       y_actual_valid, outcome, players, optimizations>>

\* The loop body without its except clause: the exception leaves the function.
UncaughtIteration(o, fun) ==
    IF o.kind = "raised"
    THEN /\ pc' = "raised"
         /\ raised' = "Exception"
         /\ attempted' = Append(attempted,
                [method |-> methods[method_index], kind |-> o.kind, fun |-> <<>>])
         /\ UNCHANGED <<args, players_for_position, n_features, X_valid,
                        y_actual_valid, method_index, best_result, best_error,
                        return_path, result, players, optimizations>>
    ELSE LoopIteration(o, fun)

MethodStepWith(o, fun) == LoopIteration(o, fun)

\* result.fun is the objective at result.x
MethodStep(o) ==
    \E fun \in {IF o.kind = "converged"
                THEN objective(X_valid, y_actual_valid, o.x) ELSE Zero} :
        MethodStepWith(o, fun)

\* The solver as a black box: any outcome at every call.
TryMethod ==
    /\ pc = "solving"
    /\ method_index <= Len(methods)
    /\ \E o \in SolverOutcomes(n_features) : MethodStep(o)
    /\ UNCHANGED solver_memo

\* "if best_result is None": the uniform weights and their objective value.
FallbackReturn ==
    /\ result' = <<Optimization(
            ZipDict(varying_stats_names, InitialWeights(n_features)),
            FallbackMeanError(X_valid, y_actual_valid, n_features))>>
    /\ return_path' = "fallback"

\* "else": the best vector divided by its sum, and the value it reported.
NormalizedReturn ==
    /\ result' = <<Optimization(
            ZipDict(varying_stats_names, NormalizedWeights(best_result[1].x)),
            ConvergedMeanError(best_result[1]))>>
    /\ return_path' = "normalized"

\* Mutant: the branch looks at the last method tried, not at best_result.
FinishOnLastMethod ==
    /\ pc = "solving"
    /\ method_index > Len(methods)
    /\ IF best_result = <<>> \/ attempted[Len(attempted)].kind # "converged"
       THEN FallbackReturn
       ELSE NormalizedReturn
    /\ pc' = "returned"
    /\ UNCHANGED <<args, locals, raised, caller>>

\* After the loop: fall back to the uniform weights or normalise the best
\* vector, build the dictionary and return.
Finish ==
    /\ pc = "solving"
    /\ method_index > Len(methods)
    /\ IF best_result = <<>> THEN FallbackReturn ELSE NormalizedReturn
    /\ pc' = "returned"
    /\ UNCHANGED <<args, locals, raised, caller>>

\* The frame is gone once the function has returned or raised.
DropFrame ==
    /\ pc' = "idle"
    /\ optimization_name' = ""
    /\ position_short_label' = ""
    /\ varying_stats_names' = <<>>
    /\ target_stat_name' = ""
    /\ players_for_position' = <<>>
    /\ n_features' = 0
    /\ X_valid' = <<>>
    /\ y_actual_valid' = <<>>
    /\ method_index' = 0
    /\ best_result' = <<>>
    /\ best_error' = Inf
    /\ attempted' = <<>>
    /\ return_path' = "none"
    /\ result' = <<>>
    /\ raised' = "none"

\* ------------------------------------------------- Spec: any single caller
Call ==
    /\ pc = "idle"
    /\ \E plist \in PlayerLists, name \in OptimizationNames,
          position \in PositionLabels, names \in FeatureLists,
          target \in TargetNames :
            Enter(plist, name, position, names, target)
    /\ UNCHANGED caller

Return ==
    /\ pc = "returned"
    /\ DropFrame
    /\ UNCHANGED caller

Propagate ==
    /\ pc = "raised"
    /\ DropFrame
    /\ UNCHANGED caller

Next == Call \/ Prepare \/ TryMethod \/ Finish \/ Return \/ Propagate

Spec == Init /\ [][Next]_vars


\* ---------------------------------- SpecRepeat: main's repeated invocations
\* main.py passes five goalkeeper statistics for "GK" and six outfield
\* statistics for every other position; the lists are scaled to one name.
GK_STAT_NAMES == <<"sho">>
OUTFIELD_STAT_NAMES == <<"pac">>

MainStatNames(position) ==
    IF position = "GK" THEN GK_STAT_NAMES ELSE OUTFIELD_STAT_NAMES

\* players = get_players(): loaded once, before the loop.
InitRepeat ==
    /\ pc = "idle"
    /\ NoFrame
    /\ players \in PlayerLists
    /\ optimizations = <<>>
    /\ solver_memo = <<>>

\* One pass of the loop body up to the call; positions in any order and
\* any number of times, so that equal calls meet.
MainCall ==
    /\ pc = "idle"
    /\ Len(optimizations) < MaxCalls
    /\ \E position \in PositionLabels :
            Enter(players, position, position, MainStatNames(position),
                  "overallRating")
    /\ UNCHANGED caller

\* minimize is deterministic: the same method on the same objective data
\* does the same thing.  The outcome is chosen at the first call and kept.
SolverKey == <<methods[method_index], X_valid, y_actual_valid>>

TryMethodAgain ==
    /\ pc = "solving"
    /\ method_index <= Len(methods)
    /\ IF SolverKey \in DOMAIN solver_memo
       THEN /\ MethodStep(solver_memo[SolverKey])
            /\ UNCHANGED solver_memo
       ELSE \E o \in SolverOutcomes(n_features) :
                /\ MethodStep(o)
                /\ solver_memo' = (SolverKey :> o) @@ solver_memo

\* optimizations.append(optimization)
MainAppend ==
    /\ pc = "returned"
    /\ optimizations' = Append(optimizations, result[1])
    /\ DropFrame
    /\ UNCHANGED <<players, solver_memo>>

NextRepeat == MainCall \/ Prepare \/ TryMethodAgain \/ Finish \/ MainAppend

SpecRepeat == InitRepeat /\ [][NextRepeat]_vars


\* ================================================================ claims
\* Vocabulary of the claims, read off the state.
Distinct(names) ==
    \A i, j \in 1..Len(names) : names[i] = names[j] => i = j

\* the target values of the cohort, as the claims speak of them
CohortTargets ==
    [i \in 1..Len(players_for_position) |->
        IF target_stat_name = "overallRating"
        THEN players_for_position[i].overallRating
        ELSE players_for_position[i].stats[target_stat_name]]

AllTargetsZero == \A i \in 1..Len(CohortTargets) : CohortTargets[i] = 0

ConvergedIndices == {i \in 1..Len(attempted) : attempted[i].kind = "converged"}

\* the returned weights read back in the order of the feature list
ReturnedVector ==
    [j \in 1..Len(varying_stats_names) |->
        result[1].optimized_weights[varying_stats_names[j]]]

RECURSIVE RSumOver(_, _)
RSumOver(f, S) ==
    IF S = {} THEN Zero
    ELSE LET k == CHOOSE k \in S : TRUE
         IN  RAdd(f[k], RSumOver(f, S \ {k}))

\* sum of the values of the returned dictionary
ReturnedSum ==
    RSumOver(result[1].optimized_weights, DOMAIN result[1].optimized_weights)

\* ------------------------------------------------------------------- C1
\* C1 as stated: structurally invalid input never yields a result: an empty
\* cohort raises one error, an empty feature list raises another, distinct,
\* error, and the failure comes before any solver method is attempted.
C1_DistinctStructuralErrors ==
    /\ pc = "raised" => result = <<>> /\ attempted = <<>>
    /\ pc \in {"checked", "solving", "returned"} =>
            players_for_position # <<>> /\ n_features > 0
    /\ (pc = "raised" /\ players_for_position # <<>> /\ n_features = 0) =>
            raised # StructuralError(<<>>, 1)

\* C1 amended: structurally invalid input never yields a result: an empty
\* cohort and an empty feature list both raise ValueError, the same error,
\* before any solver method is attempted; valid input raises nothing.
C1_OneStructuralError ==
    /\ pc = "raised" =>
            /\ result = <<>>
            /\ attempted = <<>>
            /\ raised = "ValueError"
            /\ (players_for_position = <<>> \/ n_features = 0)
    /\ pc \in {"checked", "solving", "returned"} =>
            /\ players_for_position # <<>>
            /\ n_features > 0
            /\ raised = "none"

C1_Witness ==
    /\ pc = "raised"
    /\ Len(players_for_position) = 2
    /\ n_features = 0
    /\ raised = "ValueError"

\* ------------------------------------------------------------------- C2
\* C2: when every target of a non-empty cohort is zero, the returned weights
\* are 1/feature_count for each feature, the mean error is 0, and no solver
\* method was invoked; such a cohort never reaches the solver.
C2_ZeroTargetsGiveUniform ==
    /\ (pc = "returned" /\ AllTargetsZero) =>
            /\ \A k \in Range(varying_stats_names) :
                    result[1].optimized_weights[k] = Rat(1, n_features)
            /\ DOMAIN result[1].optimized_weights = Range(varying_stats_names)
            /\ result[1].mean_error = Zero
            /\ attempted = <<>>
    /\ (pc = "solving" \/ (pc = "returned" /\ attempted # <<>>)) =>
            ~AllTargetsZero

C2_Witness ==
    /\ pc = "returned"
    /\ AllTargetsZero
    /\ Len(players_for_position) = 2
    /\ n_features = 2
    /\ Distinct(varying_stats_names)
    /\ \E i \in 1..2 : players_for_position[i].stats["pac"] # 0

SelectedIndex(att) ==
    LET conv == {i \in 1..Len(att) : att[i].kind = "converged"}
    IN  IF conv = {} THEN 0
        ELSE CHOOSE i \in conv :
                \A j \in conv :
                    \/ RLess(att[i].fun[1], att[j].fun[1])
                    \/ (att[i].fun[1] = att[j].fun[1] /\ i <= j)

BestIsSelected(att) ==
    LET i == SelectedIndex(att)
    IN  IF i = 0 THEN best_result = <<>>
        ELSE /\ best_result # <<>>
             /\ best_result[1].method = att[i].method
             /\ best_result[1].fun = att[i].fun[1]
             /\ best_error = att[i].fun[1]

\* C4: only a method that reports success becomes a candidate; the selected
\* result is the converged candidate with the lowest objective value, and on
\* an exact tie the method tried first.
C4_LowestConvergedFirstOnTie ==
    (pc = "solving" \/ (pc = "returned" /\ return_path # "degenerate")) =>
        BestIsSelected(attempted)

C4_Witness ==
    /\ pc = "returned"
    /\ Len(attempted) = 2
    /\ ConvergedIndices = {1, 2}
    /\ attempted[1].fun = attempted[2].fun
    /\ best_result[1].method = "SLSQP"
    /\ n_features = 2
    /\ Len(y_actual_valid) = 2

\* ------------------------------------------------------------------- C5
Front(att) == SubSeq(att, 1, Len(att) - 1)

\* C5: an exception of a method never leaves the function and never stops
\* the loop: every method is still attempted in order, a result is returned,
\* and the candidate accepted before the exception is kept.
C5_MethodExceptionAbsorbed ==
    /\ pc = "raised" => attempted = <<>>
    /\ (pc = "returned" /\ return_path # "degenerate") =>
            /\ Len(attempted) = Len(methods)
            /\ \A i \in 1..Len(attempted) : attempted[i].method = methods[i]
            /\ result # <<>>
    /\ (attempted # <<>> /\ attempted[Len(attempted)].kind = "raised") =>
            BestIsSelected(Front(attempted))

C5_Witness ==
    /\ pc = "returned"
    /\ Len(attempted) = 2
    /\ attempted[1].kind = "converged"
    /\ attempted[2].kind = "raised"
    /\ return_path = "normalized"
    /\ best_result[1].method = "SLSQP"

\* ------------------------------------------------------------------- C6
\* the cohort rows whose target is not zero
KeptPlayers ==
    LET NonZero(p) ==
            IF target_stat_name = "overallRating"
            THEN p.overallRating # 0
            ELSE p.stats[target_stat_name] # 0
    IN  SelectSeq(players_for_position, NonZero)

TargetOf(p) ==
    IF target_stat_name = "overallRating" THEN p.overallRating
    ELSE p.stats[target_stat_name]

\* mean absolute relative error of the weights w over the kept rows
MARE(w) ==
    LET err(p) ==
            RAbs(RDiv(
                RSub(RSum([j \in 1..Len(varying_stats_names) |->
                            RMul(Int2Rat(p.stats[varying_stats_names[j]]), w[j])]),
                     Int2Rat(TargetOf(p))),
                Int2Rat(TargetOf(p))))
    IN  RDiv(RSum([i \in 1..Len(KeptPlayers) |-> err(KeptPlayers[i])]),
             Int2Rat(Len(KeptPlayers)))

UniformVector == [j \in 1..n_features |-> Rat(1, n_features)]

\* C6: when no method converged the function returns (it does not raise) the
\* weight 1/feature_count for every feature, and the mean error is the
\* objective at that uniform vector over the rows with a non-zero target.
C6_UniformFallback ==
    (pc = "returned" /\ return_path # "degenerate" /\ ConvergedIndices = {}) =>
        /\ return_path = "fallback"
        /\ DOMAIN result[1].optimized_weights = Range(varying_stats_names)
        /\ \A k \in Range(varying_stats_names) :
                result[1].optimized_weights[k] = Rat(1, n_features)
        /\ result[1].mean_error = MARE(UniformVector)
        /\ raised = "none"

C6_Witness ==
    /\ pc = "returned"
    /\ return_path = "fallback"
    /\ Len(attempted) = 2
    /\ attempted[1].kind = "failed"
    /\ attempted[2].kind = "raised"
    /\ result[1].mean_error # Zero
    /\ Len(KeptPlayers) = 2


\* ------------------------------------------------------------------- C7
SameCall(a, b) ==
    /\ a.name = b.name
    /\ a.position_short_label = b.position_short_label
    /\ a.varying_stats_names = b.varying_stats_names
    /\ a.target_stat_name = b.target_stat_name

ProducedVector ==
    IF return_path = "normalized"
    THEN [j \in 1..n_features |->
            RDiv(best_result[1].x[j], RSum(best_result[1].x))]
    ELSE UniformVector

FeatureOrderKept ==
    /\ result[1].varying_stats_names = varying_stats_names
    /\ Cardinality(DOMAIN result[1].optimized_weights) = Len(varying_stats_names)
    /\ \A j \in 1..Len(varying_stats_names) :
            result[1].optimized_weights[varying_stats_names[j]] = ProducedVector[j]
    /\ return_path # "degenerate" =>
            /\ Len(X_valid) = Len(KeptPlayers)
            /\ \A r \in 1..Len(X_valid) : \A j \in 1..Len(varying_stats_names) :
                    X_valid[r][j] = KeptPlayers[r].stats[varying_stats_names[j]]

\* C8 as stated: for every ordered feature list the result carries one
\* weight per position of the list, the weight of the i-th name is the i-th
\* component of the vector produced for column i of X, and the names are
\* returned in their original order.
C8_OneWeightPerPosition == pc = "returned" => FeatureOrderKept

\* C8 amended: the same, for every feature list without a repeated name.
C8_OneWeightPerDistinctName ==
    (pc = "returned" /\ Distinct(varying_stats_names)) => FeatureOrderKept

C8_Witness ==
    /\ pc = "returned"
    /\ return_path = "normalized"
    /\ varying_stats_names = <<"sho", "pac">>
    /\ ReturnedVector[1] # ReturnedVector[2]
    /\ \E r \in 1..Len(X_valid) : X_valid[r][1] # X_valid[r][2]

\* ------------------------------------------------------------------- C9
AllowedStep ==
    \/ pc = "idle" /\ pc' \in {"checked", "raised"}
    \/ pc = "checked" /\ pc' = "solving" /\ attempted' = <<>>
    \/ pc = "checked" /\ pc' = "returned" /\ return_path' = "degenerate"
    \/ pc = "solving" /\ pc' = "solving" /\ Len(attempted') = Len(attempted) + 1
    \/ pc = "solving" /\ pc' = "returned"
            /\ return_path' \in {"normalized", "fallback"}
            /\ attempted' = attempted
    \/ pc \in {"returned", "raised"} /\ pc' = "idle"

EngineStates ==
    /\ pc = "returned" <=> return_path \in {"degenerate", "normalized", "fallback"}
    /\ return_path = "degenerate" => AllTargetsZero /\ attempted = <<>>
    /\ pc \in {"checked", "solving", "returned"} =>
            players_for_position # <<>> /\ n_features > 0
    /\ Len(attempted) <= Len(methods)
    /\ \A i \in 1..Len(attempted) : attempted[i].method = methods[i]
    /\ return_path = "normalized" => ConvergedIndices # {}
    /\ return_path = "fallback" =>
            Len(attempted) = Len(methods) /\ ConvergedIndices = {}
    /\ pc = "solving" => method_index = Len(attempted) + 1
    /\ pc = "solving" => method_index <= Len(methods) + 1

\* C9: an invocation that passes the input checks follows the engine's state
\* machine to exactly one terminal state: the uniform result only for
\* all-zero targets and without solving, each method tried at most once in
\* declaration order, the normalized result only after a convergence, the
\* uniform fallback only after every method was tried and none converged.
C9_EngineStateMachine == [](EngineStates) /\ [][AllowedStep]_vars

C9_Witness ==
    /\ pc = "returned"
    /\ return_path = "normalized"
    /\ Len(attempted) = 2
    /\ attempted[1].kind = "raised"
    /\ attempted[2].kind = "converged"

\* ------------------------------------------------------------------ C10
\* C10 as stated (for feature lists without a repeated name): on the
\* converged and the fallback path the mean error is the objective at the
\* weights that are returned, that is after normalization.
C10_MeanErrorAtReturnedWeights ==
    (pc = "returned" /\ return_path # "degenerate"
        /\ Distinct(varying_stats_names)) =>
        result[1].mean_error = MARE(ReturnedVector)

\* C10 amended: on the fallback path the mean error is the objective at the
\* returned uniform vector; on the converged path it is the objective at the
\* vector the selected method reported, before normalization, which is the
\* objective at the returned weights when that vector sums to exactly 1.
C10_MeanErrorAtSolverVector ==
    /\ (pc = "returned" /\ return_path = "fallback") =>
            result[1].mean_error = MARE(UniformVector)
    /\ (pc = "returned" /\ return_path = "normalized") =>
            /\ result[1].mean_error = MARE(best_result[1].x)
            /\ (RSum(best_result[1].x) = One /\ Distinct(varying_stats_names)) =>
                    result[1].mean_error = MARE(ReturnedVector)

C10_Witness ==
    /\ pc = "returned"
    /\ return_path = "normalized"
    /\ RSum(best_result[1].x) # One
    /\ Distinct(varying_stats_names)
    /\ result[1].mean_error # MARE(ReturnedVector)

====
